---- MODULE Spec2Model ----
(***************************************************************************)
(* One run of the cost_attribution DAG (dags/snowflake_cost_attribution.py) *)
(* as a state machine: every task attempt is one action, the scheduler's   *)
(* retry / upstream_failed / short-circuit rules are the ones the DAG's    *)
(* decorators and default_args ask for, and the external collaborators     *)
(* (metrics API, warehouse) answer nondeterministically from small sets.   *)
(***************************************************************************)
EXTENDS Integers, Sequences, FiniteSets, TLC

VARIABLES
    env_org_id,      \* os.getenv("ASTRO_ORGANIZATION_ID"): "" when unset
    auth_token,      \* var["value"].AUTH_TOKEN: "" when empty
    interval,        \* [start, end]: data_interval_start / data_interval_end (hours)
    state,           \* task id -> task instance state
    tries,           \* task id -> attempts made so far
    gate,            \* return value of check_for_query_ids (FALSE until it ran)
    query_ids,       \* XCom get_query_ids["query_ids"]
    query_id_map,    \* XCom get_query_ids["query_id_map"]
    query_costs,     \* XCom cost_attribution.output
    rows_processed,  \* XCom rows_processed_attribution.output
    get_requests,    \* the GET requests issued so far (org, earliestTime, latestTime)
    get_resp,        \* the response to the latest GET (NoResponse: none yet)
    error,           \* task id -> text of the exception that ended the last attempt
    posted,          \* task id -> post_metrics calls of the latest attempt
    accepted,        \* metric types the metrics API answered 200 for, in this run
    faults_left      \* failing answers the API and the warehouse may still give

vars == <<env_org_id, auth_token, interval, state, tries, gate, query_ids,
          query_id_map, query_costs, rows_processed, get_requests, get_resp,
          error, posted, accepted, faults_left>>

----------------------------------------------------------------------------
(* Bounds of the model *)

MaxQueries == 1      \* externalQueries records in one GET body, whole-run specification
MaxRows == 1         \* rows a warehouse lookup returns, whole-run specification
MaxFaults == 1       \* failing answers of the API and the warehouse in a whole run
MaxJoinQueries == 2  \* externalQueries records behind the mapping the join reads
MaxJoinRows == 2     \* rows handed to a join/publish task
MaxStart == 9        \* latest data_interval_start, in hours after start_date

(* Program constants *)

Retries == 3         \* default_args["retries"]
LagHours == 8        \* subtract(hours=8)

----------------------------------------------------------------------------
(* Python values *)

None == "None"

\* An optional number: <<>> is None, <<v>> is the number v.
NoNumber == << >>
Some(v) == <<v>>


\* What subscripting or .get() sees when a dict lookup found nothing.
NoneObject == [py_none |-> TRUE]

----------------------------------------------------------------------------
(* The DAG: tasks, wiring, task instance states *)

Tasks == {"check_env_vars", "get_query_ids", "check_for_query_ids",
          "cost_attribution", "rows_processed_attribution",
          "post_cost_attribution", "post_query_rows_processed"}

LookupTasks == {"cost_attribution", "rows_processed_attribution"}
PostTasks == {"post_cost_attribution", "post_query_rows_processed"}

\* The wiring without "check >> [cost_attribution, rows_processed_attribution]":
\* the lookups hang on get_query_ids alone.
UpstreamWithoutGate(t) ==
    CASE t = "check_env_vars" -> {}
      [] t = "get_query_ids" -> {}
      [] t = "check_for_query_ids" -> {"get_query_ids"}
      [] t = "cost_attribution" -> {"get_query_ids"}
      [] t = "rows_processed_attribution" -> {"get_query_ids"}
      [] t = "post_cost_attribution" -> {"cost_attribution"}
      [] t = "post_query_rows_processed" -> {"rows_processed_attribution"}

\* Direct upstream tasks, as cost_attribution() wires them: check_env_vars()
\* is called on its own, the XComArgs make the other edges, and
\* check >> [cost_attribution, rows_processed_attribution].
Upstream(t) ==
    CASE t = "check_env_vars" -> {}
      [] t = "get_query_ids" -> {}
      [] t = "check_for_query_ids" -> {"get_query_ids"}
      [] t = "cost_attribution" -> {"check_for_query_ids", "get_query_ids"}
      [] t = "rows_processed_attribution" -> {"check_for_query_ids", "get_query_ids"}
      [] t = "post_cost_attribution" -> {"cost_attribution"}
      [] t = "post_query_rows_processed" -> {"rows_processed_attribution"}

RECURSIVE DownstreamWithin(_, _)
\* Every task reachable from t along the wiring, over the task set ts.
DownstreamWithin(t, ts) ==
    LET direct == {d \in ts : t \in Upstream(d)}
    IN  direct \cup UNION {DownstreamWithin(d, ts \ direct) : d \in direct}

Downstream(t) == DownstreamWithin(t, Tasks \ {t})

Finished == {"success", "failed", "skipped", "upstream_failed"}

\* default trigger rule all_success: a task instance is scheduled when it has
\* not run (or waits for a retry) and every direct upstream task succeeded.
Runnable(t) ==
    /\ state[t] \in {"none", "up_for_retry"}
    /\ \A u \in Upstream(t) : state[u] = "success"

\* The state a failed attempt leaves: retried while attempts so far <= retries.
AfterFailure(t) ==
    IF tries[t] + 1 <= Retries THEN "up_for_retry" ELSE "failed"

----------------------------------------------------------------------------
(* Time and its RFC3339 rendering.  Time is counted in whole hours from the *)
(* DAG's start_date; strftime splits it into the date part and the hour.    *)

Strftime(t) == [date |-> t \div 24, hour |-> t % 24, zone |-> "Z"]

WindowStart(data_interval_start) == data_interval_start - LagHours
\* The end bound shifted by a shorter lag than the start bound.
WindowEndShortLag(data_interval_end) == data_interval_end - (LagHours - 2)

WindowEnd(data_interval_end) == data_interval_end - LagHours

----------------------------------------------------------------------------
(* What the external collaborators can answer *)

\* externalQueries records the metrics API can return.  The second record
\* has no workspaceId.  A body may repeat a record.
QueryRecords ==
    { [queryId |-> "q1", assetId |-> "a1", deploymentId |-> "d1",
       workspaceId |-> "w1", runId |-> "r1", dagId |-> "dag1",
       taskId |-> "t1", namespace |-> "ns1"],
      [queryId |-> "q2", assetId |-> "a2", deploymentId |-> "d2",
       runId |-> "r2", dagId |-> "dag2", taskId |-> "t2", namespace |-> "ns2"] }

SeqsUpTo(S, n) == UNION {[1..k -> S] : k \in 0..n}

QueryLists == SeqsUpTo(QueryRecords, MaxQueries)

\* Responses to GET .../external-queries.  json.valid says whether resp.json()
\* decodes; text stands for the body as sent.
GetResponses ==
    { [status_code |-> 200, reason |-> "OK", text |-> "{externalQueries}",
       json |-> [valid |-> TRUE, externalQueries |-> qs]] : qs \in QueryLists }
    \cup
    { [status_code |-> 203, reason |-> "Non-Authoritative Information",
       text |-> "{externalQueries}",
       json |-> [valid |-> TRUE, externalQueries |-> qs]] :
         qs \in {q \in QueryLists : Len(q) <= 1} }
    \cup
    { [status_code |-> 200, reason |-> "OK", text |-> "<html>",
       json |-> [valid |-> FALSE, externalQueries |-> << >>]],
      [status_code |-> 404, reason |-> "Not Found", text |-> "no such org",
       json |-> [valid |-> FALSE, externalQueries |-> << >>]] }

\* Responses to POST .../metrics.
PostResponses ==
    { [status_code |-> 200, reason |-> "OK", text |-> "ok"],
      [status_code |-> 201, reason |-> "Created", text |-> "created"],
      [status_code |-> 500, reason |-> "Internal Server Error", text |-> "boom"] }

\* Rows of account_usage.query_attribution_history:
\* (query_id, end_time, credits_attributed_compute).
CostRows == { <<"q1", 5, 3>>, <<"q2", 30, 4>> }

\* Rows of account_usage.query_history: (query_id, rows_produced,
\* rows_inserted, rows_updated, rows_deleted, rows_unloaded,
\* total_elapsed_time, bytes_scanned, end_time); a NULL column is NoNumber.
UsageRows ==
    { <<"q1", Some(11), Some(12), Some(13), Some(14), Some(15), Some(16),
        Some(17), 5>>,
      <<"q2", NoNumber, Some(22), NoNumber, Some(24), NoNumber, Some(26),
        NoNumber, 30>> }

\* What a warehouse lookup can return (fetchall: a list of rows).
CostResults == SeqsUpTo(CostRows, MaxRows)
UsageResults == SeqsUpTo(UsageRows, MaxRows)

----------------------------------------------------------------------------
(* get_query_ids: the mapping it stores *)

RECURSIVE DictKeys(_)
\* list(d.keys()) of the dict built from queries: each queryId once, in the
\* order of its first occurrence.
DictKeys(queries) ==
    IF queries = << >> THEN << >>
    ELSE LET front == SubSeq(queries, 1, Len(queries) - 1)
             k == queries[Len(queries)].queryId
             keys == DictKeys(front)
         IN  IF \E i \in DOMAIN front : front[i].queryId = k
             THEN keys ELSE Append(keys, k)

\* {query["queryId"]: query for query in queries}: the last record wins.
QueryRunMapping(queries) ==
    [k \in {queries[i].queryId : i \in DOMAIN queries} |->
        LET last == CHOOSE i \in DOMAIN queries :
                      /\ queries[i].queryId = k
                      /\ \A j \in DOMAIN queries :
                            queries[j].queryId = k => j <= i
        IN  queries[last]]

----------------------------------------------------------------------------
(* The join: one metric record per row *)

\* dict.get(key, default) with a record of empty fields as the default: the
\* join goes on for a query_id the mapping lacks.
MappingGetOrBlank(query_run_mapping, query_id) ==
    IF query_id \in DOMAIN query_run_mapping
    THEN query_run_mapping[query_id]
    ELSE [queryId |-> query_id, assetId |-> None, deploymentId |-> None,
          runId |-> None, dagId |-> None, taskId |-> None, namespace |-> None]

\* dict.get(key): None when the key is absent.
MappingGet(query_run_mapping, query_id) ==
    IF query_id \in DOMAIN query_run_mapping
    THEN query_run_mapping[query_id] ELSE NoneObject

\* query_meta["assetId"] and the other subscripts raise on None.
SubscriptRaises(query_meta) == "py_none" \in DOMAIN query_meta

\* The record both tasks build for one value of one row.
MetricRecord(value, query_meta, end_time) ==
    [value |-> value,
     assetId |-> query_meta.assetId,
     deploymentId |-> query_meta.deploymentId,
     workspaceId |-> IF "workspaceId" \in DOMAIN query_meta
                     THEN query_meta.workspaceId ELSE None,
     runId |-> query_meta.runId,
     dagId |-> query_meta.dagId,
     taskId |-> query_meta.taskId,
     namespace |-> query_meta.namespace,
     timestamp |-> Strftime(end_time)]

\* make_row: value if value is not None else 0.
MakeRow(value, query_meta, end_time) ==
    MetricRecord(IF value = NoNumber THEN 0 ELSE value[1], query_meta, end_time)

\* The loop of either task raises at the first row whose query_id the
\* mapping lacks, before anything is posted.
JoinRaises(rows, query_run_mapping) ==
    \E i \in DOMAIN rows :
        SubscriptRaises(MappingGet(query_run_mapping, rows[i][1]))

\* The list built with the tuple's second column as the value.
CostsFromEndTime(rows, query_run_mapping) ==
    [i \in DOMAIN rows |->
        MetricRecord(rows[i][2], MappingGet(query_run_mapping, rows[i][1]),
                     rows[i][2])]

\* post_cost_attribution's list: one record per (query_id, end_time, credit).
Costs(rows, query_run_mapping) ==
    [i \in DOMAIN rows |->
        MetricRecord(rows[i][3], MappingGet(query_run_mapping, rows[i][1]),
                     rows[i][2])]

\* The inserted and updated lists posted under each other's type.
UsageTypesSwapped ==
    << "SNOWFLAKE_ROWS_PRODUCED", "SNOWFLAKE_ROWS_UPDATED",
       "SNOWFLAKE_ROWS_INSERTED", "SNOWFLAKE_ROWS_DELETED",
       "SNOWFLAKE_ROWS_UNLOADED", "SNOWFLAKE_TOTAL_ELAPSED_TIME",
       "SNOWFLAKE_BYTES_SCANNED" >>

\* post_query_rows_processed's seven lists, by tuple position of the column.
UsageTypes ==
    << "SNOWFLAKE_ROWS_PRODUCED", "SNOWFLAKE_ROWS_INSERTED",
       "SNOWFLAKE_ROWS_UPDATED", "SNOWFLAKE_ROWS_DELETED",
       "SNOWFLAKE_ROWS_UNLOADED", "SNOWFLAKE_TOTAL_ELAPSED_TIME",
       "SNOWFLAKE_BYTES_SCANNED" >>

UsageList(rows, query_run_mapping, column) ==
    [i \in DOMAIN rows |->
        MakeRow(rows[i][column + 1],
                MappingGet(query_run_mapping, rows[i][1]), rows[i][9])]

\* The post_metrics calls post_query_rows_processed makes, in program order.
UsageBatches(rows, query_run_mapping) ==
    [c \in 1..7 |->
        [category |-> "CUSTOM", type |-> UsageTypes[c],
         metrics |-> UsageList(rows, query_run_mapping, c)]]

CostBatches(rows, query_run_mapping) ==
    << [category |-> "COST", type |-> "SNOWFLAKE_CREDITS",
        metrics |-> Costs(rows, query_run_mapping)] >>

----------------------------------------------------------------------------
(* HTTP status checks and the exceptions the tasks raise *)

NoResponse == [status_code |-> 0, reason |-> "", text |-> ""]
NoError == [type |-> "none"]

\* resp.raise_for_status(): HTTPError for 4xx and 5xx only.
RaiseForStatus(resp) == resp.status_code >= 400 /\ resp.status_code < 600

\* post_metrics checking the status the way get_query_ids does.
PostMetricsRaisesForStatus(resp) ==
    resp.status_code >= 400 /\ resp.status_code < 600

\* post_metrics: if resp.status_code != 200: raise.
PostMetricsRaises(resp) == resp.status_code # 200

\* f"Failed to get queries: {resp.status_code}:{resp.reason} {resp.text}",
\* kept as the fields the f-string interpolates.
GetError(resp) ==
    [type |-> "Exception", message |-> "Failed to get queries",
     status_code |-> resp.status_code, reason |-> resp.reason,
     text |-> resp.text]

\* f"Failed to post data: {resp.text}"
PostError(resp) ==
    [type |-> "Exception", message |-> "Failed to post data",
     text |-> resp.text]

\* The calls of an attempt that swallows the exception of post_metrics and
\* goes on to the remaining batches.
CallsMadeDespiteFailure(batches, k, ok, bad) ==
    [i \in 1..Len(batches) |->
        [category |-> batches[i].category, type |-> batches[i].type,
         metrics |-> batches[i].metrics,
         resp |-> IF i = k + 1 THEN bad ELSE ok]]

\* The calls one attempt makes over batches when the first k are answered
\* by ok and the next one, if any, by bad: post_metrics raises there and
\* the calls after it are never made.
CallsMade(batches, k, ok, bad) ==
    [i \in 1..(IF k < Len(batches) THEN k + 1 ELSE Len(batches)) |->
        [category |-> batches[i].category, type |-> batches[i].type,
         metrics |-> batches[i].metrics,
         resp |-> IF i <= k THEN ok ELSE bad]]

AcceptedTypes(calls) ==
    {calls[i].type : i \in {j \in DOMAIN calls : calls[j].resp.status_code = 200}}

----------------------------------------------------------------------------
(* Initial state: the scheduler created the run, nothing has run *)

\* The data intervals a run can have: a scheduled hour [s, s + 1), or an
\* empty interval (start = end).
Intervals ==
    UNION {{[start |-> s, end |-> e] : e \in {s, s + 1}} : s \in 0..MaxStart}

\* The scheduler created the run: no task instance has run.
RunCreated ==
    /\ state = [t \in Tasks |-> "none"]
    /\ tries = [t \in Tasks |-> 0]
    /\ gate = FALSE
    /\ query_ids = << >>
    /\ query_id_map = << >>
    /\ query_costs = << >>
    /\ rows_processed = << >>
    /\ get_requests = << >>
    /\ get_resp = NoResponse
    /\ error = [t \in Tasks |-> NoError]
    /\ posted = [t \in PostTasks |-> << >>]
    /\ accepted = {}

\* A whole run of the first scheduled hour, in any configuration.
Init ==
    /\ env_org_id \in {"", "org1"}
    /\ auth_token \in {"", "tok"}
    /\ interval = [start |-> 0, end |-> 1]
    /\ faults_left = MaxFaults
    /\ RunCreated

\* The fetch alone, over the data intervals: every attempt may fail.
InitFetch ==
    /\ env_org_id \in {"", "org1"}
    /\ auth_token \in {"", "tok"}
    /\ interval \in Intervals
    /\ faults_left = Retries + 1
    /\ RunCreated

\* The GET request get_query_ids builds from the run's configuration.
GetRequest ==
    [org_id |-> IF env_org_id = "" THEN None ELSE env_org_id,
     earliestTime |-> Strftime(WindowStart(interval.start)),
     latestTime |-> Strftime(WindowEnd(interval.end))]

\* The run when the join/publish tasks become ready: the fetch returned qs,
\* the gate passed and both lookups succeeded at the first attempt, with
\* results among cost_results and usage_results.
PublishReady(cost_results, usage_results) ==
    /\ env_org_id = "org1"
    /\ auth_token = "tok"
    /\ interval = [start |-> 0, end |-> 1]
    /\ \E qs \in SeqsUpTo(QueryRecords, MaxJoinQueries) \ {<< >>} :
        /\ get_resp = [status_code |-> 200, reason |-> "OK",
                       text |-> "{externalQueries}",
                       json |-> [valid |-> TRUE, externalQueries |-> qs]]
        /\ query_ids = DictKeys(qs)
        /\ query_id_map = QueryRunMapping(qs)
    /\ get_requests = <<GetRequest>>
    /\ gate = TRUE
    /\ query_costs \in cost_results
    /\ rows_processed \in usage_results
    /\ state = [t \in Tasks |-> IF t \in PostTasks THEN "none" ELSE "success"]
    /\ tries = [t \in Tasks |-> IF t \in PostTasks THEN 0 ELSE 1]
    /\ error = [t \in Tasks |-> NoError]
    /\ posted = [t \in PostTasks |-> << >>]
    /\ accepted = {}

\* The API or the warehouse may fail once more.
FaultAllowed == faults_left > 0

\* Bookkeeping of one attempt of task t ending in new_state with exception e.
Attempt(t, new_state, e) ==
    /\ state' = [state EXCEPT ![t] = new_state]
    /\ tries' = [tries EXCEPT ![t] = @ + 1]
    /\ error' = [error EXCEPT ![t] = e]

----------------------------------------------------------------------------
(* The tasks *)

check_env_vars ==
    /\ Runnable("check_env_vars")
    /\ IF env_org_id = ""
       THEN Attempt("check_env_vars", AfterFailure("check_env_vars"),
                    [type |-> "ValueError",
                     message |-> "Missing required environment variables"])
       ELSE Attempt("check_env_vars", "success", NoError)
    /\ UNCHANGED <<env_org_id, auth_token, interval, gate, query_ids,
                   query_id_map, query_costs, rows_processed, get_requests,
                   get_resp, posted, accepted, faults_left>>

get_query_ids ==
    /\ Runnable("get_query_ids")
    /\ IF auth_token = ""
       THEN /\ Attempt("get_query_ids", AfterFailure("get_query_ids"),
                       [type |-> "ValueError",
                        message |-> "Missing required Airflow variable AUTH_TOKEN."])
            /\ UNCHANGED <<get_requests, get_resp, query_ids, query_id_map,
                           faults_left>>
       ELSE \E resp \in GetResponses :
            /\ (RaiseForStatus(resp) \/ ~resp.json.valid) => FaultAllowed
            /\ faults_left' = IF RaiseForStatus(resp) \/ ~resp.json.valid
                              THEN faults_left - 1 ELSE faults_left
            /\ get_requests' = Append(get_requests, GetRequest)
            /\ get_resp' = resp
            /\ IF RaiseForStatus(resp)
               THEN /\ Attempt("get_query_ids", AfterFailure("get_query_ids"),
                               GetError(resp))
                    /\ UNCHANGED <<query_ids, query_id_map>>
               ELSE IF ~resp.json.valid
               THEN /\ Attempt("get_query_ids", AfterFailure("get_query_ids"),
                               [type |-> "JSONDecodeError"])
                    /\ UNCHANGED <<query_ids, query_id_map>>
               ELSE /\ Attempt("get_query_ids", "success", NoError)
                    /\ query_ids' = DictKeys(resp.json.externalQueries)
                    /\ query_id_map' = QueryRunMapping(resp.json.externalQueries)
    /\ UNCHANGED <<env_org_id, auth_token, interval, gate, query_costs,
                   rows_processed, posted, accepted>>

\* @task.short_circuit: a falsy return value skips every downstream task.
check_for_query_ids ==
    /\ Runnable("check_for_query_ids")
    /\ LET res == query_ids # << >>
       IN  /\ gate' = res
           /\ state' = [t \in Tasks |->
                  IF t = "check_for_query_ids" THEN "success"
                  ELSE IF ~res /\ t \in Downstream("check_for_query_ids")
                       THEN "skipped" ELSE state[t]]
    /\ tries' = [tries EXCEPT !["check_for_query_ids"] = @ + 1]
    /\ UNCHANGED <<env_org_id, auth_token, interval, query_ids, query_id_map,
                   query_costs, rows_processed, get_requests, get_resp, error,
                   posted, accepted, faults_left>>

\* SQLExecuteQueryOperator(task_id="cost_attribution"): the rows come back as
\* the task's output, or the statement fails.
cost_attribution ==
    /\ Runnable("cost_attribution")
    /\ \/ /\ FaultAllowed
          /\ faults_left' = faults_left - 1
          /\ Attempt("cost_attribution", AfterFailure("cost_attribution"),
                     [type |-> "DatabaseError"])
          /\ UNCHANGED query_costs
       \/ \E rows \in CostResults :
          /\ Attempt("cost_attribution", "success", NoError)
          /\ query_costs' = rows
          /\ UNCHANGED faults_left
    /\ UNCHANGED <<env_org_id, auth_token, interval, gate, query_ids,
                   query_id_map, rows_processed, get_requests, get_resp,
                   posted, accepted>>

\* SQLExecuteQueryOperator(task_id="rows_processed_attribution").
rows_processed_attribution ==
    /\ Runnable("rows_processed_attribution")
    /\ \/ /\ FaultAllowed
          /\ faults_left' = faults_left - 1
          /\ Attempt("rows_processed_attribution",
                     AfterFailure("rows_processed_attribution"),
                     [type |-> "DatabaseError"])
          /\ UNCHANGED rows_processed
       \/ \E rows \in UsageResults :
          /\ Attempt("rows_processed_attribution", "success", NoError)
          /\ rows_processed' = rows
          /\ UNCHANGED faults_left
    /\ UNCHANGED <<env_org_id, auth_token, interval, gate, query_ids,
                   query_id_map, query_costs, get_requests, get_resp,
                   posted, accepted>>

\* The task without its early return.
NothingToPostNever(rows) == FALSE

\* if not query_costs: / if not rows_processed:
NothingToPost(rows) == rows = << >>

\* The part post_cost_attribution and post_query_rows_processed share: return
\* on an empty input, join every row, then post the batches one by one.
PostTask(t, rows, batches) ==
    /\ Runnable(t)
    /\ IF NothingToPost(rows)
       THEN /\ Attempt(t, "success", NoError)
            /\ posted' = [posted EXCEPT ![t] = << >>]
            /\ UNCHANGED <<accepted, faults_left>>
       ELSE IF JoinRaises(rows, query_id_map)
       THEN /\ Attempt(t, AfterFailure(t), [type |-> "TypeError"])
            /\ posted' = [posted EXCEPT ![t] = << >>]
            /\ UNCHANGED <<accepted, faults_left>>
       ELSE \E ok \in {r \in PostResponses : ~PostMetricsRaises(r)} :
            \/ LET calls == CallsMade(batches, Len(batches), ok, ok)
               IN  /\ posted' = [posted EXCEPT ![t] = calls]
                   /\ accepted' = accepted \cup AcceptedTypes(calls)
                   /\ Attempt(t, "success", NoError)
                   /\ UNCHANGED faults_left
            \/ /\ FaultAllowed
               /\ \E k \in 0..(Len(batches) - 1) :
                  \E bad \in {r \in PostResponses : PostMetricsRaises(r)} :
                     LET calls == CallsMade(batches, k, ok, bad)
                     IN  /\ posted' = [posted EXCEPT ![t] = calls]
                         /\ accepted' = accepted \cup AcceptedTypes(calls)
                         /\ faults_left' = faults_left - 1
                         /\ Attempt(t, AfterFailure(t), PostError(bad))
    /\ UNCHANGED <<env_org_id, auth_token, interval, gate, query_ids,
                   query_id_map, query_costs, rows_processed, get_requests,
                   get_resp>>

post_cost_attribution ==
    PostTask("post_cost_attribution", query_costs,
             CostBatches(query_costs, query_id_map))

post_query_rows_processed ==
    PostTask("post_query_rows_processed", rows_processed,
             UsageBatches(rows_processed, query_id_map))

\* The scheduler: a task whose upstream failed never runs.
MarkUpstreamFailed ==
    \E t \in Tasks :
        /\ state[t] = "none"
        /\ \E u \in Upstream(t) : state[u] \in {"failed", "upstream_failed"}
        /\ state' = [state EXCEPT ![t] = "upstream_failed"]
        /\ UNCHANGED <<env_org_id, auth_token, interval, tries, gate,
                       query_ids, query_id_map, query_costs, rows_processed,
                       get_requests, get_resp, error, posted, accepted,
                       faults_left>>

Next ==
    \/ check_env_vars
    \/ get_query_ids
    \/ check_for_query_ids
    \/ cost_attribution
    \/ rows_processed_attribution
    \/ post_cost_attribution
    \/ post_query_rows_processed
    \/ MarkUpstreamFailed

Spec == Init /\ [][Next]_vars

NextFetch ==
    \/ check_env_vars
    \/ get_query_ids

SpecFetch == InitFetch /\ [][NextFetch]_vars

NextPublish ==
    \/ post_cost_attribution
    \/ post_query_rows_processed

\* Both join/publish tasks, racing, under the whole run's fault budget.
InitPublish ==
    /\ PublishReady(SeqsUpTo(CostRows, MaxJoinRows),
                    SeqsUpTo(UsageRows, MaxJoinRows))
    /\ faults_left = MaxFaults

SpecPublish == InitPublish /\ [][NextPublish]_vars

\* post_query_rows_processed alone, the cost lookup having found nothing:
\* every attempt may fail.
InitUsage ==
    /\ PublishReady({<< >>}, SeqsUpTo(UsageRows, MaxJoinRows))
    /\ faults_left = Retries + 1

NextUsage == post_query_rows_processed

SpecUsage == InitUsage /\ [][NextUsage]_vars

----------------------------------------------------------------------------
(* Vocabulary of the properties *)

FailedAttempt == {"up_for_retry", "failed"}

\* The rows a join/publish task was handed.
RowsOf(p) ==
    IF p = "post_cost_attribution" THEN query_costs ELSE rows_processed

\* The metric types a join/publish task posts.
TypesOf(p) ==
    IF p = "post_cost_attribution" THEN {"SNOWFLAKE_CREDITS"}
    ELSE {"SNOWFLAKE_ROWS_PRODUCED", "SNOWFLAKE_ROWS_INSERTED",
          "SNOWFLAKE_ROWS_UPDATED", "SNOWFLAKE_ROWS_DELETED",
          "SNOWFLAKE_ROWS_UNLOADED", "SNOWFLAKE_TOTAL_ELAPSED_TIME",
          "SNOWFLAKE_BYTES_SCANNED"}

AllCorrelated(rows) ==
    \A i \in DOMAIN rows : rows[i][1] \in DOMAIN query_id_map

RunOver == \A t \in Tasks : state[t] \in Finished

\* The record a row's value must become: the correlation fields of the
\* QueryRecord mapped to query_id, and the row's end_time as timestamp.
Carries(rec, value, query_id, end_time) ==
    LET meta == query_id_map[query_id]
    IN  /\ rec.value = value
        /\ rec.assetId = meta.assetId
        /\ rec.deploymentId = meta.deploymentId
        /\ rec.workspaceId = (IF "workspaceId" \in DOMAIN meta
                              THEN meta.workspaceId ELSE "None")
        /\ rec.runId = meta.runId
        /\ rec.dagId = meta.dagId
        /\ rec.taskId = meta.taskId
        /\ rec.namespace = meta.namespace
        /\ rec.timestamp.zone = "Z"
        /\ rec.timestamp.hour \in 0..23
        /\ rec.timestamp.date * 24 + rec.timestamp.hour = end_time

----------------------------------------------------------------------------
(* C1 *)

\* C1, as claimed: in every run in which get_query_ids returns an empty
\* query_ids list, check_for_query_ids returns false, no warehouse lookup
\* and no post_metrics call is ever executed, nothing is published, and the
\* run ends without a failed task.
C1_EmptyResultRunSucceeds ==
    (state["get_query_ids"] = "success" /\ query_ids = << >>) =>
        /\ state["check_for_query_ids"] = "success" => ~gate
        /\ \A t \in LookupTasks \cup PostTasks : tries[t] = 0
        /\ \A p \in PostTasks : posted[p] = << >>
        /\ accepted = {}
        /\ RunOver => \A t \in Tasks : state[t] \notin {"failed", "upstream_failed"}

\* The part of C1 that holds: the short circuit itself.
C1_ShortCircuit ==
    (state["get_query_ids"] = "success" /\ query_ids = << >>) =>
        /\ state["check_for_query_ids"] = "success" => ~gate
        /\ \A t \in LookupTasks \cup PostTasks : tries[t] = 0
        /\ \A p \in PostTasks : posted[p] = << >>
        /\ accepted = {}
        /\ RunOver => \A t \in Tasks \ {"check_env_vars"} :
                         state[t] \in {"success", "skipped"}

----------------------------------------------------------------------------
(* C2 *)

\* C2, as claimed: no GET of get_query_ids is issued before or without
\* check_env_vars having succeeded.
C2_NoGetBeforeEnvCheck ==
    get_requests # << >> => state["check_env_vars"] = "success"

----------------------------------------------------------------------------
(* C3 *)

\* C3, as claimed: no join/publish task starts until both lookups have
\* completed.
C3_PublishWaitsForBothLookups ==
    [][\A p \in PostTasks :
          tries'[p] > tries[p] =>
              \A l \in LookupTasks : state[l] = "success"]_vars

\* C3, amended: a lookup starts only after the gate has passed, and each
\* join/publish task starts only after its own lookup has completed.
C3_FanOutPerBranch ==
    [][/\ \A l \in LookupTasks :
             tries'[l] > tries[l] =>
                 state["check_for_query_ids"] = "success" /\ gate
       /\ tries'["post_cost_attribution"] > tries["post_cost_attribution"]
             => state["cost_attribution"] = "success"
       /\ tries'["post_query_rows_processed"] > tries["post_query_rows_processed"]
             => state["rows_processed_attribution"] = "success"]_vars

\* post_cost_attribution has run while the usage lookup has not completed.
C3_Witness ==
    /\ tries["post_cost_attribution"] > 0
    /\ state["cost_attribution"] = "success"
    /\ gate
    /\ state["rows_processed_attribution"] # "success"

----------------------------------------------------------------------------
(* C4 *)

\* C4: a join/publish task handed a row whose query_id is not a key of
\* query_id_map fails and has issued no post_metrics call, wherever the row
\* stands in the list.
C4_MissingCorrelationFails ==
    \A p \in PostTasks :
        (tries[p] > 0 /\ ~AllCorrelated(RowsOf(p))) =>
            /\ state[p] \in FailedAttempt
            /\ error[p].type # "none"
            /\ posted[p] = << >>
            /\ accepted \cap TypesOf(p) = {}

\* Both tasks failed on a list whose first row is correlated and whose
\* second row is not.
C4_Witness ==
    \A p \in PostTasks :
        /\ tries[p] > 0
        /\ Len(RowsOf(p)) = 2
        /\ RowsOf(p)[1][1] \in DOMAIN query_id_map
        /\ RowsOf(p)[2][1] \notin DOMAIN query_id_map

----------------------------------------------------------------------------
(* C5 *)

\* The text of e names status code and body of resp.
NamesStatusAndBody(e, resp) ==
    /\ "status_code" \in DOMAIN e
    /\ "text" \in DOMAIN e
    /\ e.status_code = resp.status_code
    /\ e.text = resp.text

\* C5, as claimed: every response whose status is not 200, to the GET or to
\* a POST, fails the calling task with an error whose text contains the
\* status code and the response body.
C5_Non200FailsWithStatusAndBody ==
    /\ get_resp.status_code \notin {0, 200} =>
          /\ state["get_query_ids"] \in FailedAttempt
          /\ NamesStatusAndBody(error["get_query_ids"], get_resp)
    /\ \A p \in PostTasks : \A i \in DOMAIN posted[p] :
          posted[p][i].resp.status_code # 200 =>
              /\ state[p] \in FailedAttempt
              /\ NamesStatusAndBody(error[p], posted[p][i].resp)

\* C5, amended: a 4xx or 5xx response to the GET fails get_query_ids with an
\* error that contains status code, reason and body; a response other than
\* 200 to a POST ends the calling task's attempt in failure, with an error
\* that contains the body.
C5_ErrorStatusFails ==
    /\ (get_resp.status_code >= 400 /\ get_resp.status_code <= 599) =>
          /\ state["get_query_ids"] \in FailedAttempt
          /\ NamesStatusAndBody(error["get_query_ids"], get_resp)
          /\ error["get_query_ids"].reason = get_resp.reason
    /\ \A p \in PostTasks : \A i \in DOMAIN posted[p] :
          posted[p][i].resp.status_code # 200 =>
              /\ i = Len(posted[p])
              /\ state[p] \in FailedAttempt
              /\ error[p].type = "Exception"
              /\ error[p].text = posted[p][i].resp.text

\* A POST was answered 201 and the attempt failed.
C5_Witness ==
    \E p \in PostTasks :
        /\ posted[p] # << >>
        /\ posted[p][Len(posted[p])].resp.status_code = 201
        /\ state[p] \in FailedAttempt

\* The GET was answered 404 and the attempt failed.
C5_GetWitness ==
    /\ get_resp.status_code = 404
    /\ state["get_query_ids"] \in FailedAttempt

----------------------------------------------------------------------------
(* C6 *)

\* C6, as claimed: whenever post_query_rows_processed ends in failure, none
\* of the usage batches of the run has been accepted by the metrics API.
C6_AllOrNothing ==
    state["post_query_rows_processed"] = "failed" =>
        accepted \cap TypesOf("post_query_rows_processed") = {}

\* C6, amended: an attempt of post_query_rows_processed that a response
\* other than 200 fails has had every batch before the failing one accepted
\* and has sent none after it; the usage types accepted in a run are the
\* first m of the posting order, for some m.
C6_PrefixPublished ==
    LET p == "post_query_rows_processed"
        order == << "SNOWFLAKE_ROWS_PRODUCED", "SNOWFLAKE_ROWS_INSERTED",
                    "SNOWFLAKE_ROWS_UPDATED", "SNOWFLAKE_ROWS_DELETED",
                    "SNOWFLAKE_ROWS_UNLOADED", "SNOWFLAKE_TOTAL_ELAPSED_TIME",
                    "SNOWFLAKE_BYTES_SCANNED" >>
    IN  /\ \E m \in 0..7 : accepted \cap TypesOf(p) = {order[i] : i \in 1..m}
        /\ (state[p] \in FailedAttempt /\ error[p].type = "Exception") =>
              /\ Len(posted[p]) \in 1..7
              /\ \A i \in DOMAIN posted[p] :
                    /\ posted[p][i].type = order[i]
                    /\ i < Len(posted[p]) =>
                          /\ posted[p][i].resp.status_code = 200
                          /\ order[i] \in accepted
                    /\ i = Len(posted[p]) =>
                          posted[p][i].resp.status_code # 200

\* The task has failed for good with some, not all, usage types accepted.
C6_Witness ==
    /\ state["post_query_rows_processed"] = "failed"
    /\ Cardinality(accepted \cap TypesOf("post_query_rows_processed")) \in 1..6

----------------------------------------------------------------------------
(* C7 *)

\* Call i of an attempt over rows is the i-th usage batch: category CUSTOM,
\* the i-th type, one record per row carrying the row's i-th tracked column,
\* or 0 where it is NULL.
IsUsageBatch(call, i, rows) ==
    LET order == << "SNOWFLAKE_ROWS_PRODUCED", "SNOWFLAKE_ROWS_INSERTED",
                    "SNOWFLAKE_ROWS_UPDATED", "SNOWFLAKE_ROWS_DELETED",
                    "SNOWFLAKE_ROWS_UNLOADED", "SNOWFLAKE_TOTAL_ELAPSED_TIME",
                    "SNOWFLAKE_BYTES_SCANNED" >>
    IN  /\ call.category = "CUSTOM"
        /\ call.type = order[i]
        /\ Len(call.metrics) = Len(rows)
        /\ \A r \in DOMAIN rows :
              Carries(call.metrics[r],
                      IF rows[r][i + 1] = << >> THEN 0 ELSE rows[r][i + 1][1],
                      rows[r][1], rows[r][9])

----------------------------------------------------------------------------
(* C8 *)

\* C8: handed a non-empty list of correlated cost rows, an attempt of
\* post_cost_attribution issues exactly one post_metrics call, COST /
\* SNOWFLAKE_CREDITS, with one record per row in row order: the row's
\* credits, the mapped QueryRecord's correlation fields.
C8_OneCostBatch ==
    LET p == "post_cost_attribution"
    IN  (tries[p] > 0 /\ query_costs # << >> /\ AllCorrelated(query_costs)) =>
            /\ Len(posted[p]) = 1
            /\ posted[p][1].category = "COST"
            /\ posted[p][1].type = "SNOWFLAKE_CREDITS"
            /\ Len(posted[p][1].metrics) = Len(query_costs)
            /\ \A r \in DOMAIN query_costs :
                  Carries(posted[p][1].metrics[r], query_costs[r][3],
                          query_costs[r][1], query_costs[r][2])

\* The task posted the batch of two rows of different queries.
C8_Witness ==
    /\ state["post_cost_attribution"] = "success"
    /\ Len(query_costs) = 2
    /\ AllCorrelated(query_costs)
    /\ query_costs[1][1] # query_costs[2][1]

----------------------------------------------------------------------------
(* C9 *)

\* C9: after the gate has passed, a join/publish task handed an empty row
\* list makes no post_metrics call and succeeds at its first attempt,
\* whatever the other lookup returned.
C9_EmptyRowsNoOp ==
    \A p \in PostTasks :
        (tries[p] > 0 /\ RowsOf(p) = << >>) =>
            /\ gate
            /\ state[p] = "success"
            /\ tries[p] = 1
            /\ error[p] = NoError
            /\ posted[p] = << >>
            /\ accepted \cap TypesOf(p) = {}

\* post_cost_attribution returned on an empty list while the usage lookup
\* had returned rows.
C9_Witness ==
    /\ tries["post_cost_attribution"] > 0
    /\ query_costs = << >>
    /\ state["rows_processed_attribution"] = "success"
    /\ rows_processed # << >>

----------------------------------------------------------------------------
(* C10 *)

\* C10: every GET asks for the window (intervalStart - 8 h, intervalEnd - 8 h):
\* the same length as the interval, and end > start whenever
\* intervalEnd > intervalStart.
C10_WindowIsIntervalMinusLag ==
    \A i \in DOMAIN get_requests :
        LET earliest == get_requests[i].earliestTime
            latest == get_requests[i].latestTime
            start == earliest.date * 24 + earliest.hour
            end == latest.date * 24 + latest.hour
        IN  /\ earliest.hour \in 0..23 /\ latest.hour \in 0..23
            /\ start = interval.start - 8
            /\ end = interval.end - 8
            /\ end - start = interval.end - interval.start
            /\ interval.end > interval.start => end > start

\* A GET went out for a scheduled hour whose window straddles midnight.
C10_Witness ==
    /\ get_requests # << >>
    /\ interval.end > interval.start
    /\ get_requests[1].earliestTime.date < get_requests[1].latestTime.date

====
